---------------------------- MODULE Spec2Model ----------------------------
(***************************************************************************)
(* Model of src/app.py: the budget sheet converter.                        *)
(*                                                                         *)
(* A text is a sequence of one-character strings.  The non-breaking space  *)
(* U+00A0 and the Thai header names of RENAME_MAP cannot be written in a   *)
(* TLA+ string, so NBSP is the atom "<NBSP>" and a Thai header name is one  *)
(* atom holding its transliteration (it contains no whitespace, so         *)
(* trimming treats it as the code treats the name).                        *)
(*                                                                         *)
(* A cell of the raw sheet (pd.read_excel(header=None)) is a record        *)
(*   [k, s, n]:  k = "nan"  an empty cell (float NaN)                      *)
(*               k = "str"  a text cell, s its characters                  *)
(*               k = "int"  an integer cell, n its value                   *)
(*               k = "date" a Timestamp cell at midnight of 1 January,     *)
(*                          n its year                                     *)
(* Rows and columns are 0-based in the code and 1-based here: iloc[r, c]   *)
(* is raw[r + 1][c + 1].                                                   *)
(***************************************************************************)
EXTENDS Integers, Sequences, FiniteSets, TLC

VARIABLES
    raw,          \* the sheet read by read_excel_any: a sequence of rows
    keep_suffix,  \* the toggle, passed as keep_suffix_in_budget_code
    pc,           \* position in convert_budget / the page script
    year,         \* extract_year(raw)
    df,           \* the working table: [columns, rows]
    s,            \* the normalized Budget_Account series
    m,            \* s.str.extract(group_pat): per row NoMatch or [c0, c1]
    err,          \* the exception raised by convert_budget, or NoError
    ui            \* what the page shows: [preview, download, errors, exceptions]

vars == <<raw, keep_suffix, pc, year, df, s, m, err, ui>>

---------------------------------------------------------------------------
(* Characters and texts *)

NBSP == "<NBSP>"

Digits == {"0", "1", "2", "3", "4", "5", "6", "7", "8", "9"}

\* What str.strip() strips and the regex class \s matches.
WhiteSpace == {" ", "\t", "\n", NBSP}

DigitChar(d) ==
    CASE d = 0 -> "0" [] d = 1 -> "1" [] d = 2 -> "2" [] d = 3 -> "3"
      [] d = 4 -> "4" [] d = 5 -> "5" [] d = 6 -> "6" [] d = 7 -> "7"
      [] d = 8 -> "8" [] d = 9 -> "9"

RECURSIVE IntToText(_)
\* str(n) of a non-negative integer
IntToText(n) ==
    IF n < 10 THEN <<DigitChar(n)>>
    ELSE IntToText(n \div 10) \o <<DigitChar(n % 10)>>

\* the year of a Timestamp as str() prints it: four digits, zero padded
Year4(y) ==
    LET t == IntToText(y)
    IN  CASE Len(t) = 1 -> <<"0", "0", "0">> \o t
          [] Len(t) = 2 -> <<"0", "0">> \o t
          [] Len(t) = 3 -> <<"0">> \o t
          [] OTHER -> t

---------------------------------------------------------------------------
(* Cell values *)

NaN == [k |-> "nan", s |-> <<>>, n |-> 0]
Str(t) == [k |-> "str", s |-> t, n |-> 0]
Num(i) == [k |-> "int", s |-> <<>>, n |-> i]
Date(y) == [k |-> "date", s |-> <<>>, n |-> y]

\* str(v)
ToText(v) ==
    CASE v.k = "str" -> v.s
      [] v.k = "int" -> IntToText(v.n)
      [] v.k = "date" ->
            Year4(v.n) \o <<"-", "0", "1", "-", "0", "1", " ",
                            "0", "0", ":", "0", "0", ":", "0", "0">>
      [] OTHER -> <<"n", "a", "n">>

---------------------------------------------------------------------------
(* extract_year_from_value and extract_year *)

YearLow == 1900
YearHigh == 2100

\* does re.match(r"(19|20)\d{2}", t[i:]) succeed
YearAt(t, i) ==
    /\ i + 3 <= Len(t)
    /\ \/ t[i] = "1" /\ t[i + 1] = "9"
       \/ t[i] = "2" /\ t[i + 1] = "0"
    /\ t[i + 2] \in Digits
    /\ t[i + 3] \in Digits

RECURSIVE SearchYearFrom(_, _)
SearchYearFrom(t, i) ==
    IF i > Len(t) THEN <<>>
    ELSE IF YearAt(t, i) THEN SubSeq(t, i, i + 3)
    ELSE SearchYearFrom(t, i + 1)

\* m = re.search(r"(19|20)\d{2}", s); m.group(0) if m else ""
SearchYear(t) == SearchYearFrom(t, 1)

\* lines 25-28: the year of a datetime-like value when it is in range
DateYear(v) ==
    IF v.k = "date" /\ YearLow <= v.n /\ v.n <= YearHigh
    THEN IntToText(v.n) ELSE <<>>

extract_year_from_value(v) ==
    IF v.k = "nan" THEN <<>>
    ELSE IF DateYear(v) # <<>> THEN DateYear(v)
    ELSE SearchYear(ToText(v))

NRows(sheet) == Len(sheet)
NCols(sheet) == IF sheet = <<>> THEN 0 ELSE Len(sheet[1])
iloc(sheet, r, c) == sheet[r + 1][c + 1]

Min(a, b) == IF a <= b THEN a ELSE b

ProbeRow == 5
ProbeCol == 0
ScanRows == 25
ScanCols == 6

\* raw.iloc[5, 0] inside try: an IndexError is swallowed
Probe(sheet) ==
    IF ProbeRow < NRows(sheet) /\ ProbeCol < NCols(sheet)
    THEN extract_year_from_value(iloc(sheet, ProbeRow, ProbeCol))
    ELSE <<>>

RECURSIVE ScanRow(_, _, _)
\* for c in range(cmax), from column c of row r: the first year a cell yields
ScanRow(sheet, r, c) ==
    IF c >= Min(ScanCols, NCols(sheet)) THEN <<>>
    ELSE IF extract_year_from_value(iloc(sheet, r, c)) # <<>>
    THEN extract_year_from_value(iloc(sheet, r, c))
    ELSE ScanRow(sheet, r, c + 1)

RECURSIVE ScanFrom(_, _)
\* for r in range(rmax), from row r
ScanFrom(sheet, r) ==
    IF r >= Min(ScanRows, NRows(sheet)) THEN <<>>
    ELSE IF ScanRow(sheet, r, 0) # <<>> THEN ScanRow(sheet, r, 0)
    ELSE ScanFrom(sheet, r + 1)

RECURSIVE ScanColumn(_, _, _)
ScanColumn(sheet, r, c) ==
    IF r >= Min(ScanRows, NRows(sheet)) THEN <<>>
    ELSE IF extract_year_from_value(iloc(sheet, r, c)) # <<>>
    THEN extract_year_from_value(iloc(sheet, r, c))
    ELSE ScanColumn(sheet, r + 1, c)

RECURSIVE ScanFromColumnMajor(_, _)
ScanFromColumnMajor(sheet, c) ==
    IF c >= Min(ScanCols, NCols(sheet)) THEN <<>>
    ELSE IF ScanColumn(sheet, 0, c) # <<>> THEN ScanColumn(sheet, 0, c)
    ELSE ScanFromColumnMajor(sheet, c + 1)

\* a scan that goes down the columns instead of along the rows
ScanColumnMajor(sheet) == ScanFromColumnMajor(sheet, 0)

\* lines 48-55
Scan(sheet) == ScanFrom(sheet, 0)

extract_year(sheet) ==
    IF Probe(sheet) # <<>> THEN Probe(sheet) ELSE Scan(sheet)

---------------------------------------------------------------------------
(* Tables: df is [columns |-> sequence of names, rows |-> sequence of rows], *)
(* a row holding one cell per column.  A column name is a text.            *)

NoTable == [columns |-> <<>>, rows |-> <<>>]

TH_ACCOUNT == "th:rahat-banchi-ngoppraman"
TH_BUDGET == "th:ngoppraman"
TH_RESERVED == "PR/th:kan-ngop"
TH_ACCRUED == "th:tang-ni/chai"
TH_BALANCE == "th:khong-luea"
TH_SPENT == "th:chai-pai%"

\* RENAME_MAP, applied by df.rename(columns=RENAME_MAP): other names pass
RENAME_MAP(name) ==
    CASE name = <<TH_ACCOUNT>> -> <<"Budget_Account">>
      [] name = <<TH_BUDGET>> -> <<"Budget">>
      [] name = <<TH_RESERVED>> -> <<"PR/Reserved_Budget">>
      [] name = <<TH_ACCRUED>> -> <<"Accured/Paid">>
      [] name = <<TH_BALANCE>> -> <<"Remaining_Balance">>
      [] name = <<TH_SPENT>> -> <<"Spent%">>
      [] OTHER -> name

RECURSIVE LStrip(_)
LStrip(t) ==
    IF t # <<>> /\ Head(t) \in WhiteSpace THEN LStrip(Tail(t)) ELSE t

RECURSIVE RStrip(_)
RStrip(t) ==
    IF t # <<>> /\ t[Len(t)] \in WhiteSpace
    THEN RStrip(SubSeq(t, 1, Len(t) - 1)) ELSE t

\* str.strip()
Strip(t) == LStrip(RStrip(t))

\* the positions of the columns labelled name
ColumnsNamed(t, name) == {i \in 1..Len(t.columns) : t.columns[i] = name}

HasColumn(t, name) == ColumnsNamed(t, name) # {}

\* df[name] when exactly one column has that label
Column(t, name) ==
    LET i == CHOOSE j \in ColumnsNamed(t, name) : TRUE
    IN  [r \in 1..Len(t.rows) |-> t.rows[r][i]]

\* df[name] = vals: replaces the column in place, or appends a new one
SetColumn(t, name, vals) ==
    IF HasColumn(t, name)
    THEN [t EXCEPT !.rows =
            [r \in 1..Len(t.rows) |->
                [i \in 1..Len(t.columns) |->
                    IF t.columns[i] = name THEN vals[r] ELSE t.rows[r][i]]]]
    ELSE [columns |-> Append(t.columns, name),
          rows |-> [r \in 1..Len(t.rows) |-> Append(t.rows[r], vals[r])]]

RECURSIVE Positions(_, _, _)
\* the positions i..Len(cols) whose label is in names, ascending
Positions(cols, names, i) ==
    IF i > Len(cols) THEN <<>>
    ELSE IF cols[i] \in names THEN <<i>> \o Positions(cols, names, i + 1)
    ELSE Positions(cols, names, i + 1)

\* the table restricted to the column positions idx, in that order
Take(t, idx) ==
    [columns |-> [j \in 1..Len(idx) |-> t.columns[idx[j]]],
     rows |-> [r \in 1..Len(t.rows) |->
                  [j \in 1..Len(idx) |-> t.rows[r][idx[j]]]]]

\* df.drop(columns=[name])
DropColumn(t, name) ==
    Take(t, Positions(t.columns, {c \in {t.columns[i] : i \in 1..Len(t.columns)} : c # name}, 1))

RECURSIVE KeepRows(_, _, _)
\* the rows i..Len(rows) whose flag is TRUE, in order
KeepRows(rows, flags, i) ==
    IF i > Len(rows) THEN <<>>
    ELSE IF flags[i] THEN <<rows[i]>> \o KeepRows(rows, flags, i + 1)
    ELSE KeepRows(rows, flags, i + 1)

---------------------------------------------------------------------------
(* The group pattern, lines 105-110                                        *)
(*   keep:  ^((?:G\d{3})(?:_[^:\s]+)?)\s*:\s*(.+)$                         *)
(*   drop:  ^(G\d{3})(?:_[^:\s]+)?\s*:\s*(.+)$                             *)
(* matched as re does: greedy, giving back only where that can help.       *)

NoMatch == [matched |-> FALSE, c0 |-> <<>>, c1 |-> <<>>]

RECURSIVE RunEnd(_, _, _)
\* the last position of the longest run of characters of set from i (i - 1
\* when t[i] is not in set)
RunEnd(t, i, set) ==
    IF i <= Len(t) /\ t[i] \in set THEN RunEnd(t, i + 1, set) ELSE i - 1

RECURSIVE NotRunEnd(_, _, _)
\* the same for the characters outside set
NotRunEnd(t, i, set) ==
    IF i <= Len(t) /\ t[i] \notin set THEN NotRunEnd(t, i + 1, set) ELSE i - 1

\* any upper-case letter of the sheets as the letter of the code
CodeLetterAny == {"A", "B", "G", "Z"}

\* G\d{3}: the letter of the code
CodeLetter == {"G"}

\* the position after the code G\d{3}, or 0 when t does not start with one
CodeEnd(t) ==
    IF /\ Len(t) >= 4
       /\ t[1] \in CodeLetter
       /\ t[2] \in Digits /\ t[3] \in Digits /\ t[4] \in Digits
    THEN 4 ELSE 0

\* (?:_[^:\s]+)? from position i: the last position of the suffix, i - 1
\* when there is none
SuffixEnd(t, i) ==
    IF i < Len(t) /\ t[i] = "_" /\ t[i + 1] \notin (WhiteSpace \cup {":"})
    THEN NotRunEnd(t, i + 1, WhiteSpace \cup {":"}) ELSE i - 1

\* (.+)$ from position i: . is any character but a line feed, and $ is the
\* end of the text or the place before a line feed that ends it
TextMatches(t, i) ==
    LET e == NotRunEnd(t, i, {"\n"})
    IN  /\ e >= i
        /\ \/ e = Len(t)
           \/ e = Len(t) - 1 /\ t[Len(t)] = "\n"

\* \s*(.+)$ from position i: the start of group 2, 0 when there is no match;
\* \s* takes all the white space it can and gives back one at a time
TextStart(t, i) ==
    LET w == RunEnd(t, i, WhiteSpace) + 1
        ok == {j \in i..w : TextMatches(t, j)}
    IN  IF ok = {} THEN 0 ELSE CHOOSE j \in ok : \A k \in ok : k <= j

\* a group 1 that leaves the suffix out in both modes
GroupOneAlwaysCode(t, keep, se) == SubSeq(t, 1, 4)

\* group 1: the code with its suffix (keep), the code alone (drop)
GroupOne(t, keep, se) == IF keep THEN SubSeq(t, 1, se) ELSE SubSeq(t, 1, 4)

\* one row of s.str.extract(group_pat)
Extract(t, keep) ==
    IF CodeEnd(t) = 0 THEN NoMatch
    ELSE LET se == SuffixEnd(t, 5)
             colon == RunEnd(t, se + 1, WhiteSpace) + 1
         IN  IF colon > Len(t) \/ t[colon] # ":" THEN NoMatch
             ELSE LET ts == TextStart(t, colon + 1)
                  IN  IF ts = 0 THEN NoMatch
                      ELSE [matched |-> TRUE,
                            c0 |-> GroupOne(t, keep, se),
                            c1 |-> SubSeq(t, ts, NotRunEnd(t, ts, {"\n"}))]

---------------------------------------------------------------------------
(* Series helpers *)

\* .str.replace(" ", " ", regex=False) on one text
ReplaceNBSP(t) == [i \in 1..Len(t) |-> IF t[i] = NBSP THEN " " ELSE t[i]]

\* lines 92-96 on one cell: .astype("string") keeps NaN missing and makes
\* anything else its str(), then the replace and the strip
Normalize(v) ==
    IF v.k = "nan" THEN NaN ELSE Str(Strip(ReplaceNBSP(ToText(v))))

RECURSIVE FFillFrom(_, _, _)
\* Series.ffill(): a missing value takes the last value before it
FFillFrom(vals, i, last) ==
    IF i > Len(vals) THEN <<>>
    ELSE LET v == IF vals[i].k = "nan" THEN last ELSE vals[i]
         IN  <<v>> \o FFillFrom(vals, i + 1, v)

\* no fill at all: only the marker rows have a group
FFillNone(vals) == vals

\* .ffill() over the whole column, from the top
FFill(vals) == FFillFrom(vals, 1, NaN)

RECURSIVE Split(_)
\* str.split(): the maximal runs of non-white-space characters
Split(t) ==
    LET u == LStrip(t)
    IN  IF u = <<>> THEN <<>>
        ELSE LET e == NotRunEnd(u, 1, WhiteSpace)
             IN  <<SubSeq(u, 1, e)>> \o Split(SubSeq(u, e + 1, Len(u)))

RECURSIVE Join(_)
\* " ".join(tokens)
Join(tokens) ==
    IF tokens = <<>> THEN <<>>
    ELSE IF Len(tokens) = 1 THEN tokens[1]
    ELSE tokens[1] \o <<" ">> \o Join(Tail(tokens))

\* ba.str.split().str[0]: a missing value when there is no token
ExpenseCode(v) ==
    IF v.k = "nan" \/ Split(v.s) = <<>> THEN NaN ELSE Str(Split(v.s)[1])

\* a detail that is the rest of the text after the first run of white space
ExpenseDetailRest(v) ==
    IF v.k = "nan" THEN NaN
    ELSE LET u == LStrip(v.s)
             e == NotRunEnd(u, 1, WhiteSpace)
         IN  Str(LStrip(SubSeq(u, e + 1, Len(u))))

\* ba.str.split().str[1:].str.join(" ")
ExpenseDetail(v) ==
    IF v.k = "nan" THEN NaN
    ELSE Str(Join(IF Split(v.s) = <<>> THEN <<>> ELSE Tail(Split(v.s))))

---------------------------------------------------------------------------
(* convert_budget, one action per stage, and the page script around it     *)

BUDGET_ACCOUNT == <<"Budget_Account">>
YEAR == <<"Year">>
BUDGET_CODE == <<"Budget_Code">>
BUDGET_TYPE == <<"Budget_Type">>
EXPENSE_CODE == <<"Expense_Code">>
EXPENSE_DETAIL == <<"Expense_Detail">>

\* the list desired of lines 127-131
desired ==
    <<YEAR, BUDGET_CODE, BUDGET_TYPE, EXPENSE_CODE, EXPENSE_DETAIL,
      <<"Budget">>, <<"PR/Reserved_Budget">>, <<"Accured/Paid">>,
      <<"Remaining_Balance">>, <<"Spent%">>>>

LeadingRows == 9
StrayIndex == 1

NoError == [type |-> "none", msg |-> ""]
IndexError == [type |-> "IndexError",
               msg |-> "single positional indexer is out-of-bounds"]
KeyError == [type |-> "KeyError",
             msg |-> "Could not find 'th:rahat-banchi-ngoppraman' / Budget_Account column after header set."]
AttributeError == [type |-> "AttributeError",
                   msg |-> "'DataFrame' object has no attribute 'str'"]

NoUI == [preview |-> NoTable, previews |-> 0, download |-> NoTable,
         downloads |-> 0, errors |-> <<>>, exceptions |-> <<>>]

\* rows.drop(index=range(0, 9), errors="ignore").reset_index(drop=True)
DropLeading(rows) ==
    IF Len(rows) <= LeadingRows THEN <<>>
    ELSE SubSeq(rows, LeadingRows + 1, Len(rows))

\* rows.drop(index=[1], errors="ignore").reset_index(drop=True)
DropStray(rows) ==
    IF Len(rows) <= StrayIndex THEN rows
    ELSE SubSeq(rows, 1, StrayIndex) \o SubSeq(rows, StrayIndex + 2, Len(rows))

\* line 69
ExtractYearStep ==
    /\ pc = "start"
    /\ year' = extract_year(raw)
    /\ pc' = "drop"
    /\ UNCHANGED <<raw, keep_suffix, df, s, m, err, ui>>

\* lines 72-73
DropRowsStep ==
    /\ pc = "drop"
    /\ df' = [columns |-> [i \in 1..NCols(raw) |-> IntToText(i - 1)],
              rows |-> DropStray(DropLeading(raw))]
    /\ pc' = "header"
    /\ UNCHANGED <<raw, keep_suffix, year, s, m, err, ui>>

\* the header names of lines 76 and 80
HeaderNames(row) == [i \in 1..Len(row) |-> Strip(Strip(ToText(row[i])))]

\* lines 76-80: df.iloc[0] of a table without rows raises IndexError
PromoteHeaderStep ==
    /\ pc = "header"
    /\ IF df.rows = <<>>
       THEN /\ err' = IndexError
            /\ pc' = "raised"
            /\ UNCHANGED df
       ELSE /\ df' = [columns |-> HeaderNames(df.rows[1]),
                      rows |-> Tail(df.rows)]
            /\ pc' = "rename"
            /\ UNCHANGED err
    /\ UNCHANGED <<raw, keep_suffix, year, s, m, ui>>

Renamed(t) ==
    [t EXCEPT !.columns = [i \in 1..Len(t.columns) |-> RENAME_MAP(t.columns[i])]]

\* a check that never fires
AccountMissingNever(t) == FALSE

\* line 88
AccountMissing(t) == ~HasColumn(t, BUDGET_ACCOUNT)

\* lines 83-89
RenameStep ==
    /\ pc = "rename"
    /\ LET d1 == SetColumn(df, YEAR, [r \in 1..Len(df.rows) |-> Str(year)])
           d2 == Renamed(d1)
       IN  /\ df' = d2
           /\ IF AccountMissing(d2)
              THEN err' = KeyError /\ pc' = "raised"
              ELSE pc' = "normalize" /\ UNCHANGED err
    /\ UNCHANGED <<raw, keep_suffix, year, s, m, ui>>

\* lines 92-96: with two columns of that name df[...] is a DataFrame, which
\* has no .str
NormalizeStep ==
    /\ pc = "normalize"
    /\ IF Cardinality(ColumnsNamed(df, BUDGET_ACCOUNT)) > 1
       THEN /\ err' = AttributeError
            /\ pc' = "raised"
            /\ UNCHANGED s
       ELSE /\ s' = [r \in 1..Len(df.rows) |->
                        Normalize(Column(df, BUDGET_ACCOUNT)[r])]
            /\ pc' = "classify"
            /\ UNCHANGED err
    /\ UNCHANGED <<raw, keep_suffix, year, df, m, ui>>

\* m[k].where(is_group).ffill() for k = 0 (which = "c0") and 1 ("c1")
GroupColumn(mm, which) ==
    FFill([r \in 1..Len(mm) |->
              IF mm[r].matched
              THEN Str(IF which = "c0" THEN mm[r].c0 ELSE mm[r].c1)
              ELSE NaN])

\* lines 105-114
ClassifyStep ==
    /\ pc = "classify"
    /\ m' = [r \in 1..Len(s) |->
                IF s[r].k = "nan" THEN NoMatch ELSE Extract(s[r].s, keep_suffix)]
    /\ df' = SetColumn(SetColumn(df, BUDGET_CODE, GroupColumn(m', "c0")),
                       BUDGET_TYPE, GroupColumn(m', "c1"))
    /\ pc' = "remove"
    /\ UNCHANGED <<raw, keep_suffix, year, s, err, ui>>

\* s.where(~is_group)
Blanked(ss, mm) == [r \in 1..Len(ss) |-> IF mm[r].matched THEN NaN ELSE ss[r]]

\* dropna(subset=["Budget_Account"]): which rows stay
Stays(v) == v.k # "nan"

\* lines 117-118
RemoveGroupRowsStep ==
    /\ pc = "remove"
    /\ LET ba == Blanked(s, m)
           d1 == SetColumn(df, BUDGET_ACCOUNT, ba)
       IN  df' = [d1 EXCEPT !.rows =
                     KeepRows(d1.rows, [r \in 1..Len(ba) |-> Stays(ba[r])], 1)]
    /\ pc' = "split"
    /\ UNCHANGED <<raw, keep_suffix, year, s, m, err, ui>>

\* lines 121-124
SplitStep ==
    /\ pc = "split"
    /\ LET n == Len(df.rows)
           ba == [r \in 1..n |-> Normalize(Column(df, BUDGET_ACCOUNT)[r])]
           d1 == SetColumn(df, EXPENSE_CODE, [r \in 1..n |-> ExpenseCode(ba[r])])
           d2 == SetColumn(d1, EXPENSE_DETAIL, [r \in 1..n |-> ExpenseDetail(ba[r])])
       IN  df' = DropColumn(d2, BUDGET_ACCOUNT)
    /\ pc' = "reorder"
    /\ UNCHANGED <<raw, keep_suffix, year, s, m, err, ui>>

RECURSIVE SelectPositions(_, _, _)
\* [c for c in desired if c in df.columns], then df[that list]: every
\* column labelled c, for each c in turn
SelectPositions(cols, names, i) ==
    IF i > Len(names) THEN <<>>
    ELSE Positions(cols, {names[i]}, 1) \o SelectPositions(cols, names, i + 1)

Project(t) == Take(t, SelectPositions(t.columns, desired, 1))

\* lines 127-134
ReorderStep ==
    /\ pc = "reorder"
    /\ df' = Project(df)
    /\ pc' = "returned"
    /\ UNCHANGED <<raw, keep_suffix, year, s, m, err, ui>>

\* lines 152-169: the preview and the download, or the failure message
RenderStep ==
    /\ pc \in {"returned", "raised"}
    /\ IF pc = "returned"
       THEN ui' = [ui EXCEPT !.preview = df, !.previews = @ + 1,
                             !.download = df, !.downloads = @ + 1]
       ELSE ui' = [ui EXCEPT
                     !.errors = Append(@, [label |-> "Conversion failed", exc |-> err]),
                     !.exceptions = Append(@, err)]
    /\ pc' = IF pc = "returned" THEN "shown" ELSE "failed"
    /\ UNCHANGED <<raw, keep_suffix, year, df, s, m, err>>

Next ==
    \/ ExtractYearStep
    \/ DropRowsStep
    \/ PromoteHeaderStep
    \/ RenameStep
    \/ NormalizeStep
    \/ ClassifyStep
    \/ RemoveGroupRowsStep
    \/ SplitStep
    \/ ReorderStep
    \/ RenderStep

\* the state when the script calls convert_budget on an uploaded sheet
Start(sheet, keep) ==
    /\ raw = sheet
    /\ keep_suffix = keep
    /\ pc = "start"
    /\ year = <<>>
    /\ df = NoTable
    /\ s = <<>>
    /\ m = <<>>
    /\ err = NoError
    /\ ui = NoUI

---------------------------------------------------------------------------
(* Sheets *)

SeqsUpTo(S, n) == UNION {[1..k -> S] : k \in 0..n}

\* the rows above the header: empty but for the cell at (5, 0)
Leading(nc, ycell) ==
    [r \in 1..LeadingRows |->
        [c \in 1..nc |-> IF r = ProbeRow + 1 /\ c = ProbeCol + 1 THEN ycell ELSE NaN]]

Blank(nc) == [c \in 1..nc |-> NaN]

\* a sheet of the usual layout: nine leading rows, the header, the stray
\* row, the data
Sheet(nc, ycell, header, data) ==
    Leading(nc, ycell) \o <<header>> \o <<Blank(nc)>> \o data

FY2024 == Str(<<"F", "Y", "2", "0", "2", "4">>)

(* -- rows of Budget_Account values under the header (account, budget) -- *)

MaxRows == 3

RowMenu ==
    {Str(<<"G", "5", "0", "1", ":", " ", "G", "r", "o", "u", "p", " ", "A">>), Str(<<"G", "5", "0", "2", "_", "1", " ", ":", " ", "G", "r", "o", "u", "p", " ", "B">>),
     Str(<<"5", "1", "1", " ", "i", "t", "e", "m", " ", "o", "n", "e">>), Str(<<"5", "1", "2">>), Str(<<"5", "2", "1", NBSP, " ", "i", "t", "e", "m", " ", " ", "t", "h", "r", "e", "e", " ">>),
     Str(<<" ", NBSP>>), NaN}

RowsHeader == <<Str(<<TH_ACCOUNT>>), Str(<<" ", TH_BUDGET, " ">>)>>

\* row i carries the budget 100 + i, which tells the rows apart
RowsSheet(cells) ==
    Sheet(2, FY2024, RowsHeader,
          [i \in 1..Len(cells) |-> <<cells[i], Num(100 + i)>>])

InitRows ==
    \E cells \in SeqsUpTo(RowMenu, MaxRows), keep \in BOOLEAN :
        Start(RowsSheet(cells), keep)

SpecRows == InitRows /\ [][Next]_vars

(* -- one Budget_Account text put together from parts -- *)

MaxDigits == 4

DigitRun == <<"5", "0", "1", "2", "3", "4", "5", "6", "7">>

PatCodes ==
    {<<l>> \o SubSeq(DigitRun, 1, k) :
        l \in {"G", "A", "g"}, k \in 2..MaxDigits}
    \cup {<<"G", "5", "x", "1">>}

PatLeads == {<<>>, <<NBSP>>}
PatSuffixes == {<<>>, <<"_", "1">>, <<"_">>, <<"_", "a", "B">>}
PatGaps == {<<>>, <<" ">>, <<NBSP, "\t">>}
PatColons == {<<":">>, <<>>}
PatTexts == {<<>>, <<"A">>, <<"S", "u", "b", " ", "A">>, <<"a", ":", "b">>, <<"A", "\n", "b">>}

PatternTexts ==
    {l \o c \o x \o g1 \o k \o g2 \o tx :
        l \in PatLeads, c \in PatCodes, x \in PatSuffixes, g1 \in PatGaps,
        k \in PatColons, g2 \in {<<>>, <<" ">>}, tx \in PatTexts}

\* the marker text, then one item row
PatternSheet(tx) ==
    Sheet(2, FY2024, RowsHeader,
          <<<<Str(tx), Num(101)>>, <<Str(<<"5", "1", "1", " ", "i", "t", "e", "m">>), Num(102)>>>>)

InitPattern ==
    \E tx \in PatternTexts, keep \in BOOLEAN : Start(PatternSheet(tx), keep)

SpecPattern == InitPattern /\ [][Next]_vars

(* -- sheets of any length and any header -- *)

MaxCols == 3

HeaderMenu ==
    {Str(<<TH_ACCOUNT>>), Str(<<" ", TH_BUDGET, NBSP>>), Str(<<TH_ACCRUED>>),
     Str(<<TH_BALANCE, " ">>), Str(<<"N", "o", "t", "e">>), Str(BUDGET_ACCOUNT), NaN}

AccountHeaders == {Str(<<TH_ACCOUNT>>), Str(BUDGET_ACCOUNT)}

\* a data row: the account columns hold tx, column c otherwise holds 10 * c
DataRow(header, tx) ==
    [c \in 1..Len(header) |->
        IF header[c] \in AccountHeaders THEN Str(tx) ELSE Num(10 * c)]

SheetData(header) ==
    {<<>>, <<DataRow(header, <<"G", "5", "0", "1", ":", " ", "A">>), DataRow(header, <<"5", "1", "1", " ", "r", "e", "n", "t">>)>>}

\* how many rows of the sheet exist: short sheets have no header at all
SheetLengths == {0, 5, LeadingRows, LeadingRows + 1, LeadingRows + 2, LeadingRows + 4}

FirstRows(rows, n) == SubSeq(rows, 1, Min(n, Len(rows)))

InitSheet ==
    \E header \in SeqsUpTo(HeaderMenu, MaxCols) \ {<<>>} :
      \E data \in SheetData(header), n \in SheetLengths, ycell \in {FY2024, NaN} :
        Start(FirstRows(Sheet(Len(header), ycell, header, data), n), TRUE)

Spec == InitSheet /\ [][Next]_vars

(* -- sheets for extract_year: a few filled cells in an empty grid -- *)

MaxFilled == 2

\* (rows, columns): no sheet, no row 5, one column, beyond 25 x 6
YearShapes == {<<0, 0>>, <<5, 7>>, <<6, 1>>, <<26, 7>>}

\* (row, column), 0-based
YearPositions ==
    {<<0, 1>>, <<4, 5>>, <<5, 0>>, <<5, 1>>, <<24, 5>>, <<25, 0>>, <<0, 6>>}

YearValues ==
    {Str(<<"F", "Y", " ", "2", "0", "2", "4">>), Str(<<"2", "1", "0", "0">>), Str(<<"a", "b", "c", " ", "1", "8", "9", "9", "9">>), Str(<<"x", "1", "8", "9", "9", " ", "2", "0", "0", "5", "y">>),
     Num(1999), Date(2023), Date(2100), Date(1800)}

Grid(nr, nc, f) ==
    [r \in 1..nr |->
        [c \in 1..nc |->
            IF <<r - 1, c - 1>> \in DOMAIN f THEN f[<<r - 1, c - 1>>] ELSE NaN]]

YearFillings ==
    UNION {[P -> YearValues] :
             P \in {Q \in SUBSET YearPositions : Cardinality(Q) <= MaxFilled}}

InitYear ==
    \E shape \in YearShapes, f \in YearFillings :
        Start(Grid(shape[1], shape[2], f), TRUE)

NextYear == ExtractYearStep

SpecYear == InitYear /\ [][NextYear]_vars

---------------------------------------------------------------------------
(* Properties of extract_year *)

DigitValue(ch) == CHOOSE d \in 0..9 : DigitChar(d) = ch

\* the places of t where four digits stand
FourDigitsAt(t) ==
    {i \in 1..Len(t) : i + 3 <= Len(t) /\ \A j \in i..(i + 3) : t[j] \in Digits}

NumberAt(t, i) ==
    1000 * DigitValue(t[i]) + 100 * DigitValue(t[i + 1])
      + 10 * DigitValue(t[i + 2]) + DigitValue(t[i + 3])

\* the years 1900..2100 that the cell holds, as text or as a date
YearsInRange(v) ==
    CASE v.k = "date" -> IF v.n \in 1900..2100 THEN {IntToText(v.n)} ELSE {}
      [] v.k = "nan" -> {}
      [] OTHER -> {SubSeq(ToText(v), i, i + 3) :
                     i \in {j \in FourDigitsAt(ToText(v)) :
                              NumberAt(ToText(v), j) \in 1900..2100}}

\* the places of t where a year of the form 19dd or 20dd stands
CenturyAt(t) ==
    {i \in FourDigitsAt(t) : NumberAt(t, i) \in 1900..2099}

\* what a cell yields: a date its year when in 1900..2100, anything else the
\* leftmost 19dd or 20dd of its text
Yields(v) ==
    IF v.k = "nan" THEN <<>>
    ELSE IF v.k = "date" /\ v.n \in 1900..2100 THEN IntToText(v.n)
    ELSE LET t == ToText(v)
         IN  IF CenturyAt(t) = {} THEN <<>>
             ELSE LET i == CHOOSE j \in CenturyAt(t) : \A k \in CenturyAt(t) : j <= k
                  IN  SubSeq(t, i, i + 3)

\* the cells of the scanned region that yield a year, as (row, column)
Yielding(sheet) ==
    {p \in (0..(Min(25, NRows(sheet)) - 1)) \X (0..(Min(6, NCols(sheet)) - 1)) :
        Yields(iloc(sheet, p[1], p[2])) # <<>>}

RowMajorBefore(p, q) == p[1] < q[1] \/ (p[1] = q[1] /\ p[2] <= q[2])

HasProbeCell(sheet) == NRows(sheet) > 5 /\ NCols(sheet) > 0

\* C4 as stated: when cell (5, 0) holds a 4-digit year in [1900, 2100], as
\* text or as a date, extract_year returns that year.
C4_ProbeYearInRange ==
    (pc = "drop" /\ HasProbeCell(raw) /\ YearsInRange(iloc(raw, 5, 0)) # {})
        => year \in YearsInRange(iloc(raw, 5, 0))

\* C4 amended: extract_year returns what cell (5, 0) yields when that is a
\* year (its year for a date in 1900..2100, else the leftmost 19dd or 20dd
\* of its text); otherwise what the row-major first yielding cell of the
\* first 25 rows and 6 columns yields; otherwise the empty string.
C4_ProbeThenScan ==
    pc = "drop" =>
        IF HasProbeCell(raw) /\ Yields(iloc(raw, 5, 0)) # <<>>
        THEN year = Yields(iloc(raw, 5, 0))
        ELSE IF Yielding(raw) = {} THEN year = <<>>
        ELSE \E p \in Yielding(raw) :
                /\ \A q \in Yielding(raw) : RowMajorBefore(p, q)
                /\ year = Yields(iloc(raw, p[1], p[2]))

\* cell (5, 0) holds the text 2100, which yields nothing, and the year comes
\* from a cell that the row-major scan meets before another yielding cell
C4_Witness ==
    /\ pc = "drop"
    /\ HasProbeCell(raw)
    /\ iloc(raw, 5, 0) = Str(<<"2", "1", "0", "0">>)
    /\ Cardinality(Yielding(raw)) = 1
    /\ year = <<"2", "0", "2", "4">>

\* C5: the Year is the empty string or four characters of the form 19dd or
\* 20dd, whatever kind of cell it came from.
C5_YearForm ==
    pc = "drop" =>
        \/ year = <<>>
        \/ /\ Len(year) = 4
           /\ <<year[1], year[2]>> \in {<<"1", "9">>, <<"2", "0">>}
           /\ year[3] \in Digits /\ year[4] \in Digits

---------------------------------------------------------------------------
(* Properties of convert_budget *)

\* the cell of row r in the one column labelled name
Cell(t, r, name) == t.rows[r][CHOOSE i \in ColumnsNamed(t, name) : TRUE]

Finished == pc \in {"returned", "shown"}

\* the k-th smallest member of a set of numbers
Nth(S, k) == CHOOSE p \in S : Cardinality({q \in S : q <= p}) = k

\* the input rows of the Budget_Account series s that are neither group
\* markers nor missing
DataRows == {i \in 1..Len(s) : s[i].k # "nan" /\ ~m[i].matched}

\* the group markers before input row i
MarkersBefore(i) == {j \in 1..(i - 1) : m[j].matched}

Latest(S) == CHOOSE j \in S : \A k \in S : k <= j

\* C1: the output rows are the input rows that are neither markers nor NA,
\* in their order (row i is known by its budget 100 + i), each with the code
\* and the type of the latest marker before it, or NA in both when there is
\* none.
C1_ForwardFill ==
    Finished =>
        /\ Len(df.rows) = Cardinality(DataRows)
        /\ \A k \in 1..Len(df.rows) :
              LET i == Nth(DataRows, k)
              IN  /\ Cell(df, k, <<"Budget">>) = Num(100 + i)
                  /\ IF MarkersBefore(i) = {}
                     THEN /\ Cell(df, k, BUDGET_CODE) = NaN
                          /\ Cell(df, k, BUDGET_TYPE) = NaN
                     ELSE /\ Cell(df, k, BUDGET_CODE) = Str(m[Latest(MarkersBefore(i))].c0)
                          /\ Cell(df, k, BUDGET_TYPE) = Str(m[Latest(MarkersBefore(i))].c1)

\* two markers in a row, then an item: the item has the later marker's group
C1_Witness ==
    /\ Finished
    /\ Len(s) = 3
    /\ m[1].matched /\ m[2].matched /\ ~m[3].matched
    /\ m[1].c0 # m[2].c0
    /\ Len(df.rows) = 1
    /\ Cell(df, 1, BUDGET_CODE) = Str(m[2].c0)

\* C6: every row of the output has an Expense_Code that is neither missing
\* nor empty.
C6_ExpenseCodePresent ==
    Finished =>
        \A k \in 1..Len(df.rows) :
            /\ Cell(df, k, EXPENSE_CODE).k = "str"
            /\ Cell(df, k, EXPENSE_CODE).s # <<>>

\* the maximal runs of non-white-space characters of t, as (first, last)
TokenSpans(t) ==
    {sp \in (1..Len(t)) \X (1..Len(t)) :
        /\ sp[1] <= sp[2]
        /\ \A j \in sp[1]..sp[2] : t[j] \notin WhiteSpace
        /\ sp[1] = 1 \/ t[sp[1] - 1] \in WhiteSpace
        /\ sp[2] = Len(t) \/ t[sp[2] + 1] \in WhiteSpace}

FirstSpan(t) == CHOOSE sp \in TokenSpans(t) : \A o \in TokenSpans(t) : sp[1] <= o[1]

\* the places of t after its first token that stay when every run of white
\* space between two tokens becomes one character: the characters of the
\* later tokens and the white space right after a token but the last
DetailPlaces(t) ==
    IF TokenSpans(t) = {} THEN {}
    ELSE {j \in (FirstSpan(t)[2] + 2)..Len(t) :
            \/ t[j] \notin WhiteSpace
            \/ /\ t[j - 1] \notin WhiteSpace
               /\ \E k \in (j + 1)..Len(t) : t[k] \notin WhiteSpace}

\* the tokens after the first, with one space between them
DetailOf(t) ==
    [k \in 1..Cardinality(DetailPlaces(t)) |->
        LET ch == t[Nth(DetailPlaces(t), k)]
        IN  IF ch \in WhiteSpace THEN " " ELSE ch]

---------------------------------------------------------------------------
(* Properties of the group pattern *)

UpperCase ==
    {"A", "B", "C", "D", "E", "F", "G", "H", "I", "J", "K", "L", "M",
     "N", "O", "P", "Q", "R", "S", "T", "U", "V", "W", "X", "Y", "Z"}

\* the ways to read t as CODE, optional SUFFIX, white space, a colon, white
\* space, TEXT: (last place of the suffix, place of the colon), the code a
\* letter of letters and three digits, the text not empty and free of the
\* characters of barred
Readings(t, letters, barred) ==
    {rd \in (4..Len(t)) \X (5..Len(t)) :
        LET se == rd[1]
            colon == rd[2]
        IN  /\ t[1] \in letters
            /\ \A j \in 2..4 : t[j] \in Digits
            /\ \/ se = 4
               \/ /\ se >= 6
                  /\ t[5] = "_"
                  /\ \A j \in 6..se : t[j] \notin WhiteSpace /\ t[j] # ":"
            /\ colon > se
            /\ \A j \in (se + 1)..(colon - 1) : t[j] \in WhiteSpace
            /\ t[colon] = ":"
            /\ \E j \in (colon + 1)..Len(t) : t[j] \notin WhiteSpace
            /\ \A j \in (colon + 1)..Len(t) : t[j] \notin barred}

\* a marker as C2 states it: any upper-case letter, any non-empty text
IsMarkerAsStated(t) == Readings(t, UpperCase, {}) # {}

\* a marker as amended: the letter G, and a text without a line feed
IsMarker(t) == Readings(t, {"G"}, {"\n"}) # {}

Classified == pc \in {"remove", "split", "reorder", "returned", "shown"}

\* C2 as stated: a row is a group marker iff its normalized text is CODE
\* SUFFIX? ws : ws TEXT with CODE any upper-case letter and three digits.
C2_MarkerAnyLetter ==
    Classified =>
        \A r \in 1..Len(s) :
            s[r].k = "str" => (m[r].matched <=> IsMarkerAsStated(s[r].s))

\* C2 amended: a row is a group marker iff its normalized text is CODE
\* SUFFIX? ws : ws TEXT with CODE the letter G and three digits and TEXT
\* not empty and on one line, in both modes; a marker row is not in the
\* output and the rows after it carry its group, any other text stays.
C2_MarkerG ==
    /\ Classified =>
          \A r \in 1..Len(s) :
              s[r].k = "str" => (m[r].matched <=> IsMarker(s[r].s))
    /\ Finished =>
          IF IsMarker(s[1].s)
          THEN /\ Len(df.rows) = 1
               /\ Cell(df, 1, <<"Budget">>) = Num(102)
               /\ Cell(df, 1, BUDGET_CODE) # NaN
          ELSE /\ Len(df.rows) = 2
               /\ Cell(df, 1, <<"Budget">>) = Num(101)
               /\ Cell(df, 2, BUDGET_CODE) = NaN

\* a marker with a suffix that is not a number, and white space on both
\* sides of the colon, in drop-suffix mode
C2_Witness ==
    /\ Finished
    /\ ~keep_suffix
    /\ s[1] = Str(<<"G", "5", "0", "1", "_", "a", "B", " ", "\t", ":", " ", "S", "u", "b", " ", "A">>)
    /\ m[1].matched
    /\ Len(df.rows) = 1

\* C3: a marker row gives Budget_Code = CODE and SUFFIX in keep-suffix mode
\* and CODE alone in drop-suffix mode, and Budget_Type = the text after the
\* colon and the white space that follows it.
C3_Capture ==
    Finished =>
        \A rd \in Readings(s[1].s, {"G"}, {"\n"}) :
            /\ Cell(df, 1, BUDGET_CODE) =
                   Str(SubSeq(s[1].s, 1, IF keep_suffix THEN rd[1] ELSE 4))
            /\ Cell(df, 1, BUDGET_TYPE) =
                   Str(LStrip(SubSeq(s[1].s, rd[2] + 1, Len(s[1].s))))

\* "G501_1: Sub A" in drop-suffix mode gives G501 and Sub A
C3_Witness ==
    /\ Finished
    /\ ~keep_suffix
    /\ s[1] = Str(<<"G", "5", "0", "1", "_", "1", ":", " ", "S", "u", "b", " ", "A">>)
    /\ Cell(df, 1, BUDGET_CODE) = Str(<<"G", "5", "0", "1">>)
    /\ Cell(df, 1, BUDGET_TYPE) = Str(<<"S", "u", "b", " ", "A">>)

---------------------------------------------------------------------------
(* Properties of the header stage and of the page *)

\* the row of the sheet that becomes the header, when the sheet has one
HeaderRow(sheet) == sheet[LeadingRows + 1]

\* the names under which the columns of the sheet go after trimming and
\* renaming, by the six rules as the specification lists them
CanonicalAsStated(name) ==
    CASE name = <<TH_ACCOUNT>> -> <<"Budget_Account">>
      [] name = <<TH_BUDGET>> -> <<"Budget">>
      [] name = <<TH_RESERVED>> -> <<"PR/Reserved_Budget">>
      [] name = <<TH_ACCRUED>> -> <<"Accrued/Paid">>
      [] name = <<TH_BALANCE>> -> <<"Remaining_Balance">>
      [] name = <<TH_SPENT>> -> <<"Spent%">>
      [] OTHER -> name

SourceNames(sheet) ==
    {CanonicalAsStated(Strip(ToText(HeaderRow(sheet)[c]))) :
        c \in 1..Len(HeaderRow(sheet))}

\* the sheet has a header row and none of its names is the account column
LacksAccount(sheet) ==
    /\ NRows(sheet) > LeadingRows
    /\ BUDGET_ACCOUNT \notin SourceNames(sheet)

\* C7: convert_budget returns a table or raises the labeled error about the
\* missing Budget_Account column, and raises nothing else.
C7_OnlyLabeledError == err \in {NoError, KeyError}

\* C8: when the header has no Budget_Account column after trimming and
\* renaming, convert_budget raises the labeled error before it classifies or
\* splits anything, the page shows no preview and no download, and it
\* reports one "Conversion failed" message with that error.
C8_MissingAccount ==
    LacksAccount(raw) =>
        /\ pc \in {"start", "drop", "header", "rename", "raised", "failed"}
        /\ pc \in {"raised", "failed"} <=> err = KeyError
        /\ err \in {NoError, KeyError}
        /\ s = <<>> /\ m = <<>>
        /\ ~HasColumn(df, BUDGET_CODE) /\ ~HasColumn(df, EXPENSE_CODE)
        /\ ui.previews = 0 /\ ui.downloads = 0
        /\ ui.preview = NoTable /\ ui.download = NoTable
        /\ ui.errors = IF pc = "failed"
                       THEN <<[label |-> "Conversion failed", exc |-> KeyError]>>
                       ELSE <<>>

\* a sheet with a header and data rows but no account column, reported
C8_Witness ==
    /\ LacksAccount(raw)
    /\ NRows(raw) > LeadingRows + 2
    /\ pc = "failed"
    /\ Len(ui.errors) = 1

\* the canonical list as the specification gives it
CanonicalOrder ==
    <<YEAR, BUDGET_CODE, BUDGET_TYPE, EXPENSE_CODE, EXPENSE_DETAIL,
      <<"Budget">>, <<"PR/Reserved_Budget">>, <<"Accrued/Paid">>,
      <<"Remaining_Balance">>, <<"Spent%">>>>

PlaceIn(list, name) == CHOOSE i \in 1..Len(list) : list[i] = name

\* C10: the output columns are the names of the canonical list Year,
\* Budget_Code, Budget_Type, Expense_Code, Expense_Detail, Budget,
\* PR/Reserved_Budget, Accrued/Paid, Remaining_Balance, Spent% that the
\* table has after renaming, in that order, so a source column of a rename
\* rule is there under its canonical name and any other is dropped.
C10_CanonicalColumns ==
    Finished =>
        LET listed == {CanonicalOrder[i] : i \in 1..Len(CanonicalOrder)}
            made == {YEAR, BUDGET_CODE, BUDGET_TYPE, EXPENSE_CODE, EXPENSE_DETAIL}
            out == {df.columns[i] : i \in 1..Len(df.columns)}
        IN  /\ out = {c \in listed : c \in made \/ c \in SourceNames(raw)}
            /\ \A i, j \in 1..Len(df.columns) :
                  i < j => PlaceIn(CanonicalOrder, df.columns[i])
                             <= PlaceIn(CanonicalOrder, df.columns[j])

===========================================================================
